---- MODULE Spec2Model ----
(***************************************************************************)
(* Podcast Explorer: the App component (search / sort / genre filter /     *)
(* pagination state and its derived view), the SearchBar debounce and the  *)
(* Pagination page-number list, as a state machine.                        *)
(*                                                                         *)
(* Strings are sequences of one-character strings, so that trim,           *)
(* toLowerCase, includes and localeCompare are computed, not assumed.      *)
(***************************************************************************)
EXTENDS Integers, Sequences, FiniteSets, TLC

\* ------------------------------------------------------------------ bounds
MaxPodcasts == 25      \* size of the largest podcast list the API returns
TickMs == 100          \* granularity of the passage of time
MaxCalls == 2          \* onSearchCalls saturates here
MaxTotalPages == 12    \* largest totalPages handed to getPageNumbers
MaxViewLen == 2        \* longest hand-built podcast list of SpecView
MaxViewTermLen == 2    \* longest search term of SpecView
MaxViewPage == 2       \* largest currentPage of SpecView

\* ------------------------------------------------------- program constants
itemsPerPage == 12
DebounceDelay == 300
maxVisiblePages == 5

\* the "..." entry of the page-number list; page numbers are >= 1, and the
\* list is kept one sort of value so that entries can be compared
Ellipsis == 0
NoError == "null"
NoTimer == 0

Min(a, b) == IF a < b THEN a ELSE b
Max(a, b) == IF a > b THEN a ELSE b

\* ---------------------------------------------------------------- strings
Space == " "

\* String.prototype.toLowerCase on one character
LowerChar(c) ==
  CASE c = "A" -> "a"
    [] c = "B" -> "b"
    [] c = "C" -> "c"
    [] OTHER -> c

toLowerCase(s) == [i \in 1..Len(s) |-> LowerChar(s[i])]

\* String.prototype.trim: strips leading and trailing white space
RECURSIVE trimStart(_)
trimStart(s) ==
  IF s # <<>> /\ Head(s) = Space THEN trimStart(Tail(s)) ELSE s

RECURSIVE trimEnd(_)
trimEnd(s) ==
  IF s # <<>> /\ s[Len(s)] = Space THEN trimEnd(SubSeq(s, 1, Len(s) - 1)) ELSE s

trim(s) == trimEnd(trimStart(s))

\* String.prototype.includes: sub occurs in s as a contiguous substring
includes(s, sub) ==
  \E i \in 0..(Len(s) - Len(sub)) : SubSeq(s, i + 1, i + Len(sub)) = sub

\* Array.prototype.includes
arrayIncludes(arr, x) == \E i \in 1..Len(arr) : arr[i] = x

\* Collation weights of String.prototype.localeCompare: white space sorts
\* before letters, letters compare by base letter first and only then by
\* case, lower case first.
PrimaryWeight(c) ==
  CASE c = Space -> 0
    [] LowerChar(c) = "a" -> 1
    [] LowerChar(c) = "b" -> 2
    [] LowerChar(c) = "c" -> 3
    [] OTHER -> 4

TertiaryWeight(c) == IF LowerChar(c) = c THEN 0 ELSE 1

\* lexicographic comparison of two weight sequences: -1, 0 or 1
RECURSIVE CompareWeights(_, _)
CompareWeights(a, b) ==
  IF a = <<>> /\ b = <<>> THEN 0
  ELSE IF a = <<>> THEN -1
  ELSE IF b = <<>> THEN 1
  ELSE IF Head(a) < Head(b) THEN -1
  ELSE IF Head(a) > Head(b) THEN 1
  ELSE CompareWeights(Tail(a), Tail(b))

localeCompare(a, b) ==
  LET p == CompareWeights([i \in 1..Len(a) |-> PrimaryWeight(a[i])],
                          [i \in 1..Len(b) |-> PrimaryWeight(b[i])])
  IN  IF p # 0 THEN p
      ELSE CompareWeights([i \in 1..Len(a) |-> TertiaryWeight(a[i])],
                          [i \in 1..Len(b) |-> TertiaryWeight(b[i])])

\* ------------------------------------------------------ derived-view steps
\* App.jsx: the search predicate; the emptiness test trims, the match does not
SearchKeeps(podcast, term) ==
  includes(toLowerCase(podcast.title), toLowerCase(term))

SearchFilter(pods, term) ==
  IF trim(term) # <<>>
  THEN LET Keep(p) == SearchKeeps(p, term) IN SelectSeq(pods, Keep)
  ELSE pods

\* the genre predicate with every in place of some: AND across the podcast's genres
GenreKeepsEvery(podcast, genres) ==
  \A i \in 1..Len(podcast.genres) : arrayIncludes(genres, podcast.genres[i])

\* App.jsx: podcast.genres.some((genreId) => selectedGenres.includes(genreId))
GenreKeeps(podcast, genres) ==
  \E i \in 1..Len(podcast.genres) : arrayIncludes(genres, podcast.genres[i])

GenreFilter(pods, genres) ==
  IF Len(genres) > 0
  THEN LET Keep(p) == GenreKeeps(p, genres) IN SelectSeq(pods, Keep)
  ELSE pods

\* the comparator with newest subtracting the wrong way round (oldest first)
compareOldestFirst(sortOption, a, b) ==
  CASE sortOption = "newest" -> a.updated - b.updated
    [] sortOption = "title-asc" -> localeCompare(a.title, b.title)
    [] sortOption = "title-desc" -> localeCompare(b.title, a.title)
    [] OTHER -> 0

\* the comparator with the title-desc case copied from title-asc unchanged
compareDescAsAsc(sortOption, a, b) ==
  CASE sortOption = "newest" -> b.updated - a.updated
    [] sortOption = "title-asc" -> localeCompare(a.title, b.title)
    [] sortOption = "title-desc" -> localeCompare(a.title, b.title)
    [] OTHER -> 0

\* App.jsx: the comparator handed to Array.prototype.sort
compare(sortOption, a, b) ==
  CASE sortOption = "newest" -> b.updated - a.updated
    [] sortOption = "title-asc" -> localeCompare(a.title, b.title)
    [] sortOption = "title-desc" -> localeCompare(b.title, a.title)
    [] OTHER -> 0

\* Array.prototype.sort is stable: x goes after every element it does not
\* strictly precede.
RECURSIVE insertSorted(_, _, _)
insertSorted(sorted, x, sortOption) ==
  IF sorted = <<>> THEN <<x>>
  ELSE IF compare(sortOption, sorted[Len(sorted)], x) <= 0 THEN Append(sorted, x)
  ELSE Append(insertSorted(SubSeq(sorted, 1, Len(sorted) - 1), x, sortOption),
              sorted[Len(sorted)])

RECURSIVE sortFrom(_, _, _)
sortFrom(sorted, rest, sortOption) ==
  IF rest = <<>> THEN sorted
  ELSE sortFrom(insertSorted(sorted, Head(rest), sortOption), Tail(rest), sortOption)

sort(arr, sortOption) == sortFrom(<<>>, arr, sortOption)

\* App.jsx: the filteredAndSortedPodcasts memo
computeFiltered(pods, term, genres, sortOption) ==
  sort(GenreFilter(SearchFilter(pods, term), genres), sortOption)

\* the memo without the copy, let filtered = podcasts: when no filter step
\* makes a new array, the in-place sort reorders the stored array
podcastsAfterMemoNoCopy(pods, term, genres, sortOption) ==
  IF trim(term) = <<>> /\ Len(genres) = 0 THEN sort(pods, sortOption) ELSE pods

\* App.jsx: the stored podcasts array after the memo callback ran.  filtered
\* starts as a copy, [...podcasts], so the in-place sort works on an array
\* of its own and the stored array is as it was.
podcastsAfterMemo(pods, term, genres, sortOption) == pods

\* Math.floor in place of Math.ceil
totalPagesFloor(totalItems) == totalItems \div itemsPerPage

\* Math.ceil(totalItems / itemsPerPage)
totalPagesOf(totalItems) == (totalItems + itemsPerPage - 1) \div itemsPerPage

\* Array.prototype.slice(startIndex, endIndex): a negative index counts from
\* the end, both are clamped to the array, an empty range gives []
slice(arr, startIndex, endIndex) ==
  LET from == IF startIndex < 0 THEN Max(Len(arr) + startIndex, 0)
              ELSE Min(startIndex, Len(arr))
      to == IF endIndex < 0 THEN Max(Len(arr) + endIndex, 0)
            ELSE Min(endIndex, Len(arr))
  IN  IF from < to THEN SubSeq(arr, from + 1, to) ELSE <<>>

\* the start index counted from page 0: currentPage * itemsPerPage
startIndexOfNextPage(page) == page * itemsPerPage

startIndexOf(page) == (page - 1) * itemsPerPage

hasNextPageOf(page, totalPages) == page < totalPages
hasPrevPageOf(page) == page > 1

\* App.jsx: the paginationData memo
computePagination(F, page) ==
  LET totalItems == Len(F)
      totalPages == totalPagesOf(totalItems)
      startIndex == startIndexOf(page)
      endIndex == startIndex + itemsPerPage
  IN  [currentPageData |-> slice(F, startIndex, endIndex),
       totalPages |-> totalPages,
       totalItems |-> totalItems,
       currentPage |-> page,
       hasNextPage |-> hasNextPageOf(page, totalPages),
       hasPrevPage |-> hasPrevPageOf(page)]

\* Pagination.jsx: getPageNumbers
SeqFromTo(a, b) == [i \in 1..Max(0, b - a + 1) |-> a + i - 1]

\* a window reaching two pages back
windowStartWide(page) == Max(2, page - 2)

windowStart(page) == Max(2, page - 1)
\* a window reaching two pages ahead
windowEndWide(page, totalPages) == Min(totalPages - 1, page + 2)

windowEnd(page, totalPages) == Min(totalPages - 1, page + 1)

\* getPageNumbers with the leading gap test off by one: start >= 2
getPageNumbersEarlyEllipsis(page, totalPages) ==
  IF totalPages <= maxVisiblePages
  THEN SeqFromTo(1, totalPages)
  ELSE LET start == windowStart(page)
           end == windowEnd(page, totalPages)
           IsInner(i) == i # 1 /\ i # totalPages
       IN  <<1>>
           \o (IF start >= 2 THEN <<Ellipsis>> ELSE <<>>)
           \o SelectSeq(SeqFromTo(start, end), IsInner)
           \o (IF end < totalPages - 1 THEN <<Ellipsis>> ELSE <<>>)
           \o (IF totalPages > 1 THEN <<totalPages>> ELSE <<>>)

getPageNumbers(page, totalPages) ==
  IF totalPages <= maxVisiblePages
  THEN SeqFromTo(1, totalPages)
  ELSE LET start == windowStart(page)
           end == windowEnd(page, totalPages)
           IsInner(i) == i # 1 /\ i # totalPages
       IN  <<1>>
           \o (IF start > 2 THEN <<Ellipsis>> ELSE <<>>)
           \o SelectSeq(SeqFromTo(start, end), IsInner)
           \o (IF end < totalPages - 1 THEN <<Ellipsis>> ELSE <<>>)
           \o (IF totalPages > 1 THEN <<totalPages>> ELSE <<>>)

\* ------------------------------------------------------------------ inputs

SortOptions == {"newest", "title-asc", "title-desc"}
GenreIds == {1, 2}

\* the podcast list the API returns: n records with cycling titles, genres
\* and timestamps (titles repeat and timestamps tie)
TitlePool == << <<"a", "b", "c">>, <<"A", "b">>, <<"b", "a">>, <<"c">> >>
GenrePool == << <<1>>, <<2>>, <<1, 2>> >>

PodcastAt(i) ==
  [id |-> i,
   title |-> TitlePool[(i % Len(TitlePool)) + 1],
   genres |-> GenrePool[(i % Len(GenrePool)) + 1],
   updated |-> (i * 7) % 5]

MkData(n) == [i \in 1..n |-> PodcastAt(i)]

DataSets == {MkData(0), MkData(MaxPodcasts)}

\* the text the user types, one keystroke at a time
TypedText == <<"a", "b", "c">>
InputTexts == {SubSeq(TypedText, 1, n) : n \in 0..Len(TypedText)}

\* every order in which the genre check boxes can stand selected
GenreSelections ==
  {<<>>} \cup {<<g>> : g \in GenreIds}
         \cup {<<g, h>> : <<g, h>> \in {p \in GenreIds \X GenreIds : p[1] # p[2]}}

\* the search terms and sort keys of the derived view taken alone
ViewChars == {"a", "A", Space}

RECURSIVE StringsUpTo(_)
StringsUpTo(n) ==
  IF n = 0 THEN {<<>>}
  ELSE LET shorter == StringsUpTo(n - 1)
       IN  shorter \cup {Append(str, c) : str \in shorter, c \in ViewChars}

ViewTerms == StringsUpTo(MaxViewTermLen)

ViewSortOptions == SortOptions \cup {"relevance"}

\* the filteredAndSortedPodcasts memo for every combination of parameters the
\* controls can produce, computed once: pairs <<dependencies, value>>
FilteredTable ==
  {<<k, computeFiltered(k[4], k[1], k[2], k[3])>> :
     k \in (InputTexts \cup ViewTerms) \X GenreSelections \X ViewSortOptions \X DataSets}

filteredOf(pods, term, genres, sortOption) ==
  LET key == <<term, genres, sortOption, pods>>
  IN  IF pods \in DataSets /\ \E p \in FilteredTable : p[1] = key
      THEN (CHOOSE p \in FilteredTable : p[1] = key)[2]
      ELSE computeFiltered(pods, term, genres, sortOption)

\* ------------------------------------------------------------------- state
VARIABLES
  podcasts, loading, error,                       \* App: data state
  searchTerm, sortBy, selectedGenres, currentPage,\* App: UI control state
  filteredAndSortedPodcasts, paginationData,      \* App: memoised derived view
  localSearchTerm,                                \* SearchBar: input text
  timers, timeoutId,                              \* pending setTimeout timers; id held by the debounce effect
  pendingEffects,                                 \* effects scheduled by the last render, not yet run
  pageNumbers,                                    \* Pagination: rendered page-number list
  onSearchCalls,                                  \* history: onSearch calls made by the debounce timer since the last keystroke
  typingOnly,                                     \* history: the user has typed, and has done nothing else since
  navigatedTo,                                    \* history: the page of the last handlePageChange call, if the user has done nothing since; else 0
  clearedOnly,                                    \* history: the user has pressed Clear All Filters, and has done nothing since
  lastEvent                                       \* history: the step taken last, the page shown before it, its argument

vars == <<podcasts, loading, error, searchTerm, sortBy, selectedGenres, currentPage,
          filteredAndSortedPodcasts, paginationData, localSearchTerm,
          timers, timeoutId, pendingEffects, pageNumbers, onSearchCalls, typingOnly, navigatedTo, clearedOnly, lastEvent>>

Event(name, arg) == [name |-> name, pageBefore |-> currentPage, arg |-> arg]

\* the App state the handlers update
AppState ==
  [searchTerm |-> searchTerm, sortBy |-> sortBy,
   selectedGenres |-> selectedGenres, currentPage |-> currentPage]

\* App.jsx: the controls are rendered only when !loading && !error
Mounted(ld, err) == ~ld /\ err = NoError

\* ---------------------------------------------------------------- handlers
\* handleSearch without the setSearchTerm call
handleSearchKeepsTerm(s, term) == [s EXCEPT !.currentPage = 1]

handleSearch(s, term) == [s EXCEPT !.searchTerm = term, !.currentPage = 1]

\* handleSort without setCurrentPage(1)
handleSortKeepsPage(s, sortOption) == [s EXCEPT !.sortBy = sortOption]

handleSort(s, sortOption) == [s EXCEPT !.sortBy = sortOption, !.currentPage = 1]

handleGenreFilter(s, genres) == [s EXCEPT !.selectedGenres = genres, !.currentPage = 1]

\* handlePageChange that also puts the sort order back to its default
handlePageChangeResetsSort(s, page) ==
  [s EXCEPT !.currentPage = page, !.sortBy = "newest"]

handlePageChange(s, page) == [s EXCEPT !.currentPage = page]

\* clearAllFilters without the setSortBy("newest") call
clearAllFiltersKeepsSort(s) ==
  [searchTerm |-> <<>>, sortBy |-> s.sortBy, selectedGenres |-> <<>>, currentPage |-> 1]

clearAllFilters(s) ==
  [searchTerm |-> <<>>, sortBy |-> "newest", selectedGenres |-> <<>>, currentPage |-> 1]

\* Pagination.jsx
goToPrevPage(s, pd) ==
  IF pd.hasPrevPage THEN handlePageChange(s, pd.currentPage - 1) ELSE s

\* goToNextPage without the hasNextPage test
goToNextPageAlways(s, pd) == handlePageChange(s, pd.currentPage + 1)

goToNextPage(s, pd) ==
  IF pd.hasNextPage THEN handlePageChange(s, pd.currentPage + 1) ELSE s

\* goToPage with the lower guard off by one: page >= 0
goToPageFromZero(s, pd, page) ==
  IF page >= 0 /\ page <= pd.totalPages THEN handlePageChange(s, page) ELSE s

goToPage(s, pd, page) ==
  IF page >= 1 /\ page <= pd.totalPages THEN handlePageChange(s, page) ELSE s

\* FilterControls.toggleGenre
toggleGenre(selected, genreId) ==
  IF arrayIncludes(selected, genreId)
  THEN LET Other(id) == id # genreId IN SelectSeq(selected, Other)
  ELSE Append(selected, genreId)

\* ----------------------------------------------------------------- effects
\* clearTimeout(timeoutId)
clearTimeout(tms, tid) == {t \in tms : t.id # tid}

FreshId(tms) == CHOOSE n \in 1..(Cardinality(tms) + 1) : \A t \in tms : t.id # n

\* SearchBar.jsx: the debounce effect; its clean-up cancels the timer of the
\* previous run, then a new timer is started for the rendered input text
debounceEffect(tms, tid, local) ==
  LET cleared == clearTimeout(tms, tid)
      id == FreshId(cleared)
  IN  [timers |-> cleared \cup {[id |-> id, term |-> local, remaining |-> DebounceDelay]},
       timeoutId |-> id]

\* SearchBar.jsx: the sync effect, setLocalSearchTerm(searchTerm)
syncEffect(term) == term

\* App.jsx: the page-correction effect
pageCorrectionEffect(s, pd) ==
  IF s.currentPage > pd.totalPages /\ pd.totalPages > 0
  THEN [s EXCEPT !.currentPage = 1]
  ELSE s

\* a batch of state updates renders App again although no value changed
appRendersAlways(s, pods, ld, err) == TRUE

\* React renders App again when a batch of state updates changed a value;
\* updates that set the values already held are dropped
appRenders(s, pods, ld, err) ==
  s # AppState \/ pods # podcasts \/ ld # loading \/ err # error

\* ------------------------------------------------------------------ render
\* One React update: the batched state changes are applied, the memos are
\* recomputed, and the effects whose dependencies changed are scheduled.
\* handleSearch is a new function on every App render, so every App render
\* changes the onSearch dependency of the debounce effect.  Setting state to
\* the value it already has renders nothing and schedules nothing.
Render(s, pods, ld, err, local, tms, tid) ==
  LET wasMounted == Mounted(loading, error)
      isMounted == Mounted(ld, err)
      mounting == isMounted /\ ~wasMounted
      appRendered == appRenders(s, pods, ld, err)
      localNext == IF mounting THEN s.searchTerm ELSE local
      \* useMemo: recomputed only when a dependency changed
      memoF == IF <<pods, s.searchTerm, s.selectedGenres, s.sortBy>>
                    = <<podcasts, searchTerm, selectedGenres, sortBy>>
               THEN filteredAndSortedPodcasts
               ELSE filteredOf(pods, s.searchTerm, s.selectedGenres, s.sortBy)
  IN  \E F \in {memoF} :
      \E pd \in {IF F = filteredAndSortedPodcasts /\ s.currentPage = currentPage
                  THEN paginationData
                  ELSE computePagination(F, s.currentPage)} :
      /\ podcasts' = IF <<pods, s.searchTerm, s.selectedGenres, s.sortBy>>
                          = <<podcasts, searchTerm, selectedGenres, sortBy>>
                     THEN pods
                     ELSE podcastsAfterMemo(pods, s.searchTerm, s.selectedGenres, s.sortBy)
      /\ loading' = ld
      /\ error' = err
      /\ searchTerm' = s.searchTerm
      /\ sortBy' = s.sortBy
      /\ selectedGenres' = s.selectedGenres
      /\ currentPage' = s.currentPage
      /\ filteredAndSortedPodcasts' = F
      /\ paginationData' = pd
      /\ localSearchTerm' = localNext
      /\ timers' = tms
      /\ timeoutId' = tid
      /\ pageNumbers' = IF isMounted /\ pd.totalPages > 1
                        THEN getPageNumbers(pd.currentPage, pd.totalPages)
                        ELSE <<>>
      /\ pendingEffects' =
           (IF isMounted /\ (mounting \/ appRendered \/ localNext # localSearchTerm)
            THEN {"debounce"} ELSE {})
           \cup (IF isMounted /\ (mounting \/ s.searchTerm # searchTerm)
                 THEN {"sync"} ELSE {})
           \cup (IF s.currentPage # currentPage \/ pd.totalPages # paginationData.totalPages
                 THEN {"pageCorrection"} ELSE {})

\* an event handler that updates App state and, possibly, the input text
Handle(s, local) == Render(s, podcasts, loading, error, local, timers, timeoutId)

\* --------------------------------------------------------------------- Init
Init ==
  /\ podcasts = <<>>
  /\ loading = TRUE
  /\ error = NoError
  /\ searchTerm = <<>>
  /\ sortBy = "newest"
  /\ selectedGenres = <<>>
  /\ currentPage = 1
  /\ filteredAndSortedPodcasts = <<>>
  /\ paginationData = computePagination(<<>>, 1)
  /\ localSearchTerm = <<>>
  /\ timers = {}
  /\ timeoutId = NoTimer
  /\ pendingEffects = {}
  /\ pageNumbers = <<>>
  /\ onSearchCalls = 0
  /\ typingOnly = FALSE
  /\ navigatedTo = 0
  /\ clearedOnly = FALSE
  /\ lastEvent = [name |-> "mount", pageBefore |-> 1, arg |-> 0]

\* ------------------------------------------------------------------ actions
\* fetchPodcasts reports success: setPodcasts(data), setLoading(false)
FetchSuccess ==
  /\ loading
  /\ \E data \in DataSets :
       Render(AppState, data, FALSE, NoError, localSearchTerm, timers, timeoutId)
  /\ UNCHANGED <<onSearchCalls, typingOnly, navigatedTo, clearedOnly>>
  /\ lastEvent' = Event("FetchSuccess", 0)

\* fetchPodcasts reports failure: setError(message), setLoading(false)
FetchFailure ==
  /\ loading
  /\ Render(AppState, podcasts, FALSE, "fetch failed", localSearchTerm, timers, timeoutId)
  /\ UNCHANGED <<onSearchCalls, typingOnly, navigatedTo, clearedOnly>>
  /\ lastEvent' = Event("FetchFailure", 0)

\* a timer whose delay has elapsed runs before anything else happens
Due == {t \in timers : t.remaining = 0}

\* the user can act: the controls are shown and React has nothing left to do
CanAct ==
  /\ Mounted(loading, error)
  /\ pendingEffects = {}
  /\ Due = {}

\* the effects scheduled by the last render run, children first, and the
\* state they set is rendered
RunEffects ==
  /\ pendingEffects # {}
  /\ LET d == IF "debounce" \in pendingEffects
              THEN debounceEffect(timers, timeoutId, localSearchTerm)
              ELSE [timers |-> timers, timeoutId |-> timeoutId]
         local == IF "sync" \in pendingEffects
                  THEN syncEffect(searchTerm) ELSE localSearchTerm
         s == IF "pageCorrection" \in pendingEffects
              THEN pageCorrectionEffect(AppState, paginationData) ELSE AppState
     IN  Render(s, podcasts, loading, error, local, d.timers, d.timeoutId)
  /\ UNCHANGED <<onSearchCalls, typingOnly, navigatedTo, clearedOnly>>
  /\ lastEvent' = Event("RunEffects", 0)

\* time passes
Tick ==
  /\ pendingEffects = {}
  /\ timers # {}
  /\ Due = {}
  /\ timers' = {[t EXCEPT !.remaining = Max(0, t.remaining - TickMs)] : t \in timers}
  /\ UNCHANGED <<podcasts, loading, error, searchTerm, sortBy, selectedGenres,
                 currentPage, filteredAndSortedPodcasts, paginationData,
                 localSearchTerm, timeoutId, pendingEffects, pageNumbers, onSearchCalls,
                 typingOnly, navigatedTo, clearedOnly>>
  /\ lastEvent' = Event("Tick", 0)

\* SearchBar.jsx: the setTimeout callback, onSearch(localSearchTerm)
TimerFire ==
  /\ pendingEffects = {}
  /\ \E t \in Due :
       Render(handleSearch(AppState, t.term), podcasts, loading, error,
              localSearchTerm, timers \ {t}, timeoutId)
  /\ onSearchCalls' = Min(MaxCalls, onSearchCalls + 1)
  /\ UNCHANGED <<typingOnly, navigatedTo, clearedOnly>>
  /\ lastEvent' = Event("TimerFire", 0)

\* SearchBar.handleInputChange: one keystroke (a character typed or deleted)
InputChange ==
  /\ CanAct
  /\ \E value \in InputTexts :
       /\ Len(value) - Len(localSearchTerm) \in {-1, 1}
       /\ Handle(AppState, value)
  /\ onSearchCalls' = 0
  /\ typingOnly' = TRUE
  /\ navigatedTo' = 0
  /\ clearedOnly' = FALSE
  /\ lastEvent' = Event("InputChange", 0)

\* SearchBar.handleSubmit
Submit ==
  /\ CanAct
  /\ Handle(handleSearch(AppState, localSearchTerm), localSearchTerm)
  /\ UNCHANGED onSearchCalls
  /\ typingOnly' = FALSE
  /\ navigatedTo' = 0
  /\ clearedOnly' = FALSE
  /\ lastEvent' = Event("Submit", 0)

\* SearchBar.clearSearch (the button is shown when the input is not empty)
ClearSearch ==
  /\ CanAct
  /\ localSearchTerm # <<>>
  /\ Handle(handleSearch(AppState, <<>>), <<>>)
  /\ UNCHANGED onSearchCalls
  /\ typingOnly' = FALSE
  /\ navigatedTo' = 0
  /\ clearedOnly' = FALSE
  /\ lastEvent' = Event("ClearSearch", 0)

\* SortControls.handleSortChange (a select fires onChange on a new value)
SortChange ==
  /\ CanAct
  /\ \E sortOption \in SortOptions \ {sortBy} :
       /\ Handle(handleSort(AppState, sortOption), localSearchTerm)
       /\ lastEvent' = Event("SortChange", sortOption)
  /\ UNCHANGED onSearchCalls
  /\ typingOnly' = FALSE
  /\ navigatedTo' = 0
  /\ clearedOnly' = FALSE

\* FilterControls: a genre check box is toggled
ToggleGenre ==
  /\ CanAct
  /\ \E genreId \in GenreIds :
       /\ Handle(handleGenreFilter(AppState, toggleGenre(selectedGenres, genreId)),
                 localSearchTerm)
       /\ lastEvent' = Event("ToggleGenre", genreId)
  /\ UNCHANGED onSearchCalls
  /\ typingOnly' = FALSE
  /\ navigatedTo' = 0
  /\ clearedOnly' = FALSE

\* FilterControls.clearAllGenres (shown when a genre is selected)
ClearAllGenres ==
  /\ CanAct
  /\ Len(selectedGenres) > 0
  /\ Handle(handleGenreFilter(AppState, <<>>), localSearchTerm)
  /\ UNCHANGED onSearchCalls
  /\ typingOnly' = FALSE
  /\ navigatedTo' = 0
  /\ clearedOnly' = FALSE
  /\ lastEvent' = Event("ClearAllGenres", 0)

\* App.jsx: Pagination is rendered when totalPages > 1
PaginationShown == paginationData.totalPages > 1

PrevPage ==
  /\ CanAct
  /\ PaginationShown
  /\ Handle(goToPrevPage(AppState, paginationData), localSearchTerm)
  /\ UNCHANGED onSearchCalls
  /\ typingOnly' = FALSE
  /\ navigatedTo' = IF paginationData.hasPrevPage THEN currentPage - 1 ELSE 0
  /\ clearedOnly' = FALSE
  /\ lastEvent' = Event("PrevPage", 0)

NextPage ==
  /\ CanAct
  /\ PaginationShown
  /\ Handle(goToNextPage(AppState, paginationData), localSearchTerm)
  /\ UNCHANGED onSearchCalls
  /\ typingOnly' = FALSE
  /\ navigatedTo' = IF paginationData.hasNextPage THEN currentPage + 1 ELSE 0
  /\ clearedOnly' = FALSE
  /\ lastEvent' = Event("NextPage", 0)

GoToPage ==
  /\ CanAct
  /\ PaginationShown
  /\ \E page \in 0..(paginationData.totalPages + 1) :
       /\ Handle(goToPage(AppState, paginationData, page), localSearchTerm)
       /\ lastEvent' = Event("GoToPage", page)
       /\ navigatedTo' = IF page >= 1 /\ page <= paginationData.totalPages THEN page ELSE 0
  /\ UNCHANGED onSearchCalls
  /\ typingOnly' = FALSE
  /\ clearedOnly' = FALSE

\* App.jsx: either Clear All Filters button; the one in the controls is
\* disabled when nothing is set, the one in the no-results block never is
ClearFiltersEnabled ==
  \/ ~(searchTerm = <<>> /\ sortBy = "newest" /\ Len(selectedGenres) = 0)
  \/ paginationData.totalItems = 0

ClearAllFilters ==
  /\ CanAct
  /\ ClearFiltersEnabled
  /\ Handle(clearAllFilters(AppState), localSearchTerm)
  /\ UNCHANGED onSearchCalls
  /\ typingOnly' = FALSE
  /\ navigatedTo' = 0
  /\ clearedOnly' = TRUE
  /\ lastEvent' = Event("ClearAllFilters", 0)

Next ==
  \/ FetchSuccess
  \/ FetchFailure
  \/ RunEffects
  \/ Tick
  \/ TimerFire
  \/ InputChange
  \/ Submit
  \/ ClearSearch
  \/ SortChange
  \/ ToggleGenre
  \/ ClearAllGenres
  \/ PrevPage
  \/ NextPage
  \/ GoToPage
  \/ ClearAllFilters

Spec == Init /\ [][Next]_vars

\* React runs the scheduled effects, time passes while a timer is pending,
\* and a timer whose delay has elapsed runs its callback
SpecFair ==
  /\ Spec
  /\ WF_vars(RunEffects)
  /\ WF_vars(Tick)
  /\ WF_vars(TimerFire)

\* ------------------------------------------------- the derived view alone
\* The pipeline as a function of its parameters: the App is ready with some
\* podcast list, and the handlers set any search term (white space and upper
\* case included), genre selection, sort key (an unknown one included) and
\* page; no timer and no effect takes part.
ViewPool ==
  { [id |-> 1, title |-> <<"a", Space, "b">>, genres |-> <<1>>, updated |-> 2],
    [id |-> 2, title |-> <<"A", "b">>, genres |-> <<2, 1>>, updated |-> 1],
    [id |-> 3, title |-> <<"B", "a", "a">>, genres |-> <<3>>, updated |-> 2] }

RECURSIVE ListsUpTo(_)
ListsUpTo(n) ==
  IF n = 0 THEN {<<>>}
  ELSE LET shorter == ListsUpTo(n - 1)
       IN  shorter \cup {Append(l, p) : <<l, p>> \in
                           {q \in shorter \X ViewPool :
                              \A i \in 1..Len(q[1]) : q[1][i].id # q[2].id}}

ViewData == ListsUpTo(MaxViewLen) \cup {MkData(MaxPodcasts)}

InitView ==
  /\ podcasts \in ViewData
  /\ loading = FALSE
  /\ error = NoError
  /\ searchTerm = <<>>
  /\ sortBy = "newest"
  /\ selectedGenres = <<>>
  /\ currentPage = 1
  /\ filteredAndSortedPodcasts = computeFiltered(podcasts, <<>>, <<>>, "newest")
  /\ paginationData = computePagination(filteredAndSortedPodcasts, 1)
  /\ localSearchTerm = <<>>
  /\ timers = {}
  /\ timeoutId = NoTimer
  /\ pendingEffects = {}
  /\ pageNumbers = <<>>
  /\ onSearchCalls = 0
  /\ typingOnly = FALSE
  /\ navigatedTo = 0
  /\ clearedOnly = FALSE
  /\ lastEvent = [name |-> "mount", pageBefore |-> 1, arg |-> 0]

\* the state s is rendered: the memos are recomputed
ViewRender(s) ==
  \E F \in {filteredOf(podcasts, s.searchTerm, s.selectedGenres, s.sortBy)} :
    /\ searchTerm' = s.searchTerm
    /\ sortBy' = s.sortBy
    /\ selectedGenres' = s.selectedGenres
    /\ currentPage' = s.currentPage
    /\ filteredAndSortedPodcasts' = F
    /\ paginationData' = computePagination(F, s.currentPage)
    /\ podcasts' = podcastsAfterMemo(podcasts, s.searchTerm, s.selectedGenres, s.sortBy)
    /\ UNCHANGED <<loading, error, localSearchTerm, timers, timeoutId,
                   pendingEffects, pageNumbers, onSearchCalls, typingOnly, navigatedTo,
                   clearedOnly, lastEvent>>

\* the term is edited one character at a time
ViewSearch ==
  \E term \in ViewTerms :
    /\ \/ Len(term) = Len(searchTerm) + 1 /\ SubSeq(term, 1, Len(searchTerm)) = searchTerm
       \/ Len(searchTerm) = Len(term) + 1 /\ SubSeq(searchTerm, 1, Len(term)) = term
    /\ ViewRender(handleSearch(AppState, term))

ViewSort ==
  \E sortOption \in ViewSortOptions :
    ViewRender(handleSort(AppState, sortOption))

ViewGenres ==
  \E genres \in GenreSelections :
    ViewRender(handleGenreFilter(AppState, genres))

ViewPage ==
  \E page \in 1..MaxViewPage :
    ViewRender(handlePageChange(AppState, page))

NextView ==
  \/ ViewSearch
  \/ ViewSort
  \/ ViewGenres
  \/ ViewPage

SpecView == InitView /\ [][NextView]_vars

\* -------------------------------------------- the page-number list alone
\* Pagination rendered with any props currentPage and totalPages.
PaginationProps(page, totalPages) ==
  [currentPageData |-> <<>>,
   totalPages |-> totalPages,
   totalItems |-> totalPages * itemsPerPage,
   currentPage |-> page,
   hasNextPage |-> hasNextPageOf(page, totalPages),
   hasPrevPage |-> hasPrevPageOf(page)]

InitPages ==
  /\ podcasts = <<>>
  /\ loading = FALSE
  /\ error = NoError
  /\ searchTerm = <<>>
  /\ sortBy = "newest"
  /\ selectedGenres = <<>>
  /\ currentPage = 1
  /\ filteredAndSortedPodcasts = <<>>
  /\ \E totalPages \in 1..MaxTotalPages :
       /\ paginationData = PaginationProps(1, totalPages)
       /\ pageNumbers = getPageNumbers(1, totalPages)
  /\ localSearchTerm = <<>>
  /\ timers = {}
  /\ timeoutId = NoTimer
  /\ pendingEffects = {}
  /\ onSearchCalls = 0
  /\ typingOnly = FALSE
  /\ navigatedTo = 0
  /\ clearedOnly = FALSE
  /\ lastEvent = [name |-> "mount", pageBefore |-> 1, arg |-> 0]

RenderPagination ==
  \E page \in 0..(MaxTotalPages + 1) :
    /\ currentPage' = page
    /\ paginationData' = PaginationProps(page, paginationData.totalPages)
    /\ pageNumbers' = getPageNumbers(page, paginationData.totalPages)
    /\ UNCHANGED <<podcasts, loading, error, searchTerm, sortBy, selectedGenres,
                   filteredAndSortedPodcasts, localSearchTerm, timers, timeoutId,
                   pendingEffects, onSearchCalls, typingOnly, navigatedTo,
                   clearedOnly, lastEvent>>

NextPages == RenderPagination

SpecPages == InitPages /\ [][NextPages]_vars

\* ================================================================== claims
SetOf(arr) == {arr[i] : i \in 1..Len(arr)}

\* C1: every application of handleSearch (debounce timer, submit, clear
\* search), handleSort or handleGenreFilter leaves currentPage = 1 in the
\* state it produces, whatever page was shown before.
C1_ParamChangeResetsPage ==
  lastEvent.name \in {"TimerFire", "Submit", "ClearSearch", "SortChange",
                      "ToggleGenre", "ClearAllGenres"}
    => currentPage = 1

C1_Witness ==
  /\ lastEvent.name = "SortChange"
  /\ lastEvent.pageBefore = 3
  /\ currentPage = 1

\* C2: in every state with no update pending, if there is at least one page
\* then currentPage is one of the pages: 1 <= currentPage <= totalPages.
C2_PageInRange ==
  (pendingEffects = {} /\ paginationData.totalPages > 0)
    => (1 <= currentPage /\ currentPage <= paginationData.totalPages)

C2_Witness ==
  /\ lastEvent.name = "GoToPage"
  /\ lastEvent.arg = paginationData.totalPages + 1
  /\ lastEvent.pageBefore = paginationData.totalPages
  /\ pendingEffects = {}
  /\ currentPage = paginationData.totalPages

\* C3: after a burst of keystrokes the debounce timer makes one onSearch
\* call, for the last text typed: the timer never calls onSearch a second
\* time before the next keystroke.
C3_OneSearchPerBurst == typingOnly => onSearchCalls <= 1

C5_SearchUsesTrimmedTerm ==
  selectedGenres = <<>> =>
    \A i \in 1..Len(podcasts) :
      (podcasts[i] \in SetOf(filteredAndSortedPodcasts))
        <=> \/ trim(searchTerm) = <<>>
            \/ includes(toLowerCase(podcasts[i].title), toLowerCase(trim(searchTerm)))

\* C6: of the podcasts that pass the search step, the filtered list holds all
\* of them when no genre is selected, and otherwise exactly those whose
\* genres share at least one id with selectedGenres.
C6_GenreFilterIsOr ==
  \A p \in SetOf(SearchFilter(podcasts, searchTerm)) :
    (p \in SetOf(filteredAndSortedPodcasts))
      <=> \/ selectedGenres = <<>>
          \/ SetOf(p.genres) \cap SetOf(selectedGenres) # {}

\* two genres are selected; a podcast with only one of them is kept and a
\* podcast with neither is dropped
C6_Witness ==
  /\ Len(selectedGenres) = 2
  /\ searchTerm = <<>>
  /\ Len(podcasts) <= MaxViewLen
  /\ \E p \in SetOf(filteredAndSortedPodcasts) : Cardinality(SetOf(p.genres)) = 1
  /\ \E p \in SetOf(podcasts) : p \notin SetOf(filteredAndSortedPodcasts)

\* C7: currentPageData is the contiguous slice of the filtered-and-sorted
\* list at indices [(currentPage-1)*12, currentPage*12), in order, at most 12
\* long, and empty when the start index is at or beyond the end.
C7_PageIsSlice ==
  LET F == filteredAndSortedPodcasts
      data == paginationData.currentPageData
      start == (currentPage - 1) * 12
  IN  /\ Len(data) = Max(0, Min(12, Len(F) - start))
      /\ \A k \in 1..Len(data) : data[k] = F[start + k]
      /\ start >= Len(F) => data = <<>>

C7_Witness ==
  /\ currentPage = 2
  /\ Len(filteredAndSortedPodcasts) > 12
  /\ Len(filteredAndSortedPodcasts) < 24
  /\ Len(paginationData.currentPageData) = Len(filteredAndSortedPodcasts) - 12

\* C8: totalPages is the least number of 12-item pages that hold totalItems
\* (0 for 0 items), hasPrevPage = (currentPage > 1), hasNextPage =
\* (currentPage < totalPages); 13 items make 2 pages and page 2 holds 1.
C8_PageTotals ==
  LET pd == paginationData
  IN  /\ pd.totalItems = Len(filteredAndSortedPodcasts)
      /\ pd.totalPages * 12 >= pd.totalItems
      /\ pd.totalPages > 0 => (pd.totalPages - 1) * 12 < pd.totalItems
      /\ pd.totalItems = 0 => pd.totalPages = 0
      /\ pd.hasPrevPage = (currentPage > 1)
      /\ pd.hasNextPage = (currentPage < pd.totalPages)
      /\ pd.totalItems = 13 =>
           /\ pd.totalPages = 2
           /\ currentPage = 2 => Len(pd.currentPageData) = 1

C8_Witness ==
  /\ paginationData.totalItems = 13
  /\ paginationData.totalPages = 2
  /\ currentPage = 2
  /\ Len(paginationData.currentPageData) = 1

\* C9: for 1 <= currentPage <= totalPages the page-number list is 1..totalPages
\* when totalPages <= 5, and otherwise page 1, an ellipsis iff
\* max(2, currentPage-1) > 2, the pages max(2, currentPage-1) ..
\* min(totalPages-1, currentPage+1), an ellipsis iff
\* min(totalPages-1, currentPage+1) < totalPages-1, then totalPages;
\* (1,1) gives [1], (5,10) gives [1,...,4,5,6,...,10], (1,10) gives [1,2,...,10].
C9_PageNumberPolicy ==
  LET page == paginationData.currentPage
      total == paginationData.totalPages
      lo == IF page - 1 > 2 THEN page - 1 ELSE 2
      hi == IF page + 1 < total - 1 THEN page + 1 ELSE total - 1
      lead == IF lo > 2 THEN 1 ELSE 0
      trail == IF hi < total - 1 THEN 1 ELSE 0
      n == hi - lo + 1
  IN  (1 <= page /\ page <= total) =>
        /\ total <= 5 =>
             /\ Len(pageNumbers) = total
             /\ \A i \in 1..total : pageNumbers[i] = i
        /\ total > 5 =>
             /\ Len(pageNumbers) = 2 + lead + n + trail
             /\ pageNumbers[1] = 1
             /\ lead = 1 => pageNumbers[2] = Ellipsis
             /\ \A i \in 1..n : pageNumbers[1 + lead + i] = lo + i - 1
             /\ trail = 1 => pageNumbers[2 + lead + n] = Ellipsis
             /\ pageNumbers[Len(pageNumbers)] = total
        /\ (page = 1 /\ total = 1) => pageNumbers = <<1>>
        /\ (page = 5 /\ total = 10) =>
             pageNumbers = <<1, Ellipsis, 4, 5, 6, Ellipsis, 10>>
        /\ (page = 1 /\ total = 10) => pageNumbers = <<1, 2, Ellipsis, 10>>

C9_Witness ==
  /\ paginationData.currentPage = 5
  /\ paginationData.totalPages = 10
  /\ pageNumbers = <<1, Ellipsis, 4, 5, 6, Ellipsis, 10>>

\* C10: whatever currentPage and totalPages >= 1 are, the page-number list has
\* at most 7 entries: at most 2 ellipses and at most 5 page numbers.
C10_AtMostSevenEntries ==
  LET ellipses == {i \in 1..Len(pageNumbers) : pageNumbers[i] = Ellipsis}
  IN  /\ Len(pageNumbers) <= 7
      /\ Cardinality(ellipses) <= 2
      /\ Len(pageNumbers) - Cardinality(ellipses) <= 5

C10_Witness ==
  /\ paginationData.totalPages = MaxTotalPages
  /\ Len(pageNumbers) = 7

\* C11: the sorted list is a permutation of the filtered podcasts; with
\* newest no item is older than the one before it and items with equal
\* timestamps keep their input order; with title-asc / title-desc the titles
\* are in non-decreasing / non-increasing localeCompare order.
PositionIn(arr, x) == CHOOSE i \in 1..Len(arr) : arr[i] = x

C11_SortOrder ==
  LET F == filteredAndSortedPodcasts
      input == GenreFilter(SearchFilter(podcasts, searchTerm), selectedGenres)
  IN  /\ Len(F) = Len(input)
      /\ SetOf(F) = SetOf(input)
      /\ sortBy = "newest" =>
           \A i \in 1..Len(F) : \A j \in (i + 1)..Len(F) :
             /\ F[i].updated >= F[j].updated
             /\ F[i].updated = F[j].updated =>
                  PositionIn(input, F[i]) < PositionIn(input, F[j])
      /\ sortBy = "title-asc" =>
           \A i \in 1..(Len(F) - 1) : localeCompare(F[i].title, F[i + 1].title) <= 0
      /\ sortBy = "title-desc" =>
           \A i \in 1..(Len(F) - 1) : localeCompare(F[i].title, F[i + 1].title) >= 0

\* newest was applied to a list that held a tie and was not yet in order
C11_Witness ==
  /\ sortBy = "newest"
  /\ searchTerm = <<"a">>
  /\ filteredAndSortedPodcasts
       # GenreFilter(SearchFilter(podcasts, searchTerm), selectedGenres)
  /\ \E i \in 1..(Len(filteredAndSortedPodcasts) - 1) :
       filteredAndSortedPodcasts[i].updated = filteredAndSortedPodcasts[i + 1].updated

\* C12: when the titles of the filtered podcasts are pairwise distinct, the
\* list sorted title-desc is the list sorted title-asc read backwards.
Reverse(arr) == [i \in 1..Len(arr) |-> arr[Len(arr) + 1 - i]]

DistinctTitles(arr) ==
  \A i \in 1..Len(arr) : \A j \in (i + 1)..Len(arr) : arr[i].title # arr[j].title

C12_DescIsReverseOfAsc ==
  (sortBy = "title-desc" /\ DistinctTitles(filteredAndSortedPodcasts)) =>
    filteredAndSortedPodcasts
      = Reverse(computeFiltered(podcasts, searchTerm, selectedGenres, "title-asc"))

C12_Witness ==
  /\ sortBy = "title-desc"
  /\ Len(filteredAndSortedPodcasts) >= 2
  /\ DistinctTitles(filteredAndSortedPodcasts)
  /\ filteredAndSortedPodcasts # podcasts

\* C20: for 1 <= currentPage <= totalPages the page numbers of the list are
\* strictly increasing, lie in 1..totalPages and include 1, totalPages and
\* currentPage; two neighbouring numbers are consecutive, and an ellipsis
\* stands between two numbers that differ by at least 2.
C20_PageListShape ==
  LET page == paginationData.currentPage
      total == paginationData.totalPages
      n == Len(pageNumbers)
      IsNumber(i) == pageNumbers[i] # Ellipsis
      numbers == {pageNumbers[i] : i \in {k \in 1..n : IsNumber(k)}}
  IN  (1 <= page /\ page <= total) =>
        /\ numbers \subseteq 1..total
        /\ {1, total, page} \subseteq numbers
        /\ \A i \in 1..n : \A j \in (i + 1)..n :
             (IsNumber(i) /\ IsNumber(j)) => pageNumbers[i] < pageNumbers[j]
        /\ \A i \in 1..(n - 1) :
             (IsNumber(i) /\ IsNumber(i + 1)) => pageNumbers[i + 1] = pageNumbers[i] + 1
        /\ \A i \in 1..n :
             ~IsNumber(i) =>
               /\ 1 < i /\ i < n
               /\ IsNumber(i - 1) /\ IsNumber(i + 1)
               /\ pageNumbers[i + 1] - pageNumbers[i - 1] >= 2

\* both ellipses stand in the list and each hides pages
C20_Witness ==
  /\ paginationData.currentPage = 4
  /\ paginationData.totalPages = 7
  /\ pageNumbers = <<1, Ellipsis, 3, 4, 5, Ellipsis, 7>>

\* C13: a page request that is not valid (goToPage(p) with p < 1 or
\* p > totalPages, goToPrevPage without a previous page, goToNextPage without
\* a next page) is ignored: the page, every other parameter, the derived view
\* and the error state are as before, and no effect is scheduled.
InvalidPageRequest ==
  \/ /\ lastEvent'.name = "GoToPage"
     /\ (lastEvent'.arg < 1 \/ lastEvent'.arg > paginationData.totalPages)
  \/ lastEvent'.name = "PrevPage" /\ ~paginationData.hasPrevPage
  \/ lastEvent'.name = "NextPage" /\ ~paginationData.hasNextPage

C13_InvalidRequestsIgnored ==
  [][InvalidPageRequest =>
       UNCHANGED <<podcasts, loading, error, searchTerm, sortBy, selectedGenres,
                   currentPage, filteredAndSortedPodcasts, paginationData,
                   localSearchTerm, timers, timeoutId, pendingEffects, pageNumbers>>]_vars

\* Next was requested on the last page and the page stayed
C13_Witness ==
  /\ lastEvent.name = "NextPage"
  /\ lastEvent.pageBefore = paginationData.totalPages
  /\ currentPage = paginationData.totalPages
  /\ currentPage > 1
  /\ error = NoError

\* C15: right after clearAllFilters the four parameters have their initial
\* values, and a Clear All Filters button can be pressed whenever the ready
\* view has no items.
C15_ClearAllResets ==
  /\ lastEvent.name = "ClearAllFilters" =>
       /\ searchTerm = <<>>
       /\ sortBy = "newest"
       /\ selectedGenres = <<>>
       /\ currentPage = 1
  /\ (Mounted(loading, error) /\ paginationData.totalItems = 0) => ClearFiltersEnabled

\* clearAllFilters ran on page 2 with a committed search term
C15_Witness ==
  /\ lastEvent.name = "ClearAllFilters"
  /\ lastEvent.pageBefore = 2
  /\ "sync" \in pendingEffects
  /\ sortBy = "newest"
  /\ currentPage = 1

C16_PageSticks == navigatedTo # 0 => currentPage = navigatedTo

\* C17: after Clear All Filters, as long as the user does nothing more, the
\* committed search term is "" and, once the effects have run, so is the
\* input text: text typed before the clear is not committed after it.
C17_ClearAllWins ==
  clearedOnly =>
    /\ searchTerm = <<>>
    /\ pendingEffects = {} => localSearchTerm = <<>>

\* a step taken by the user
UserEvents ==
  {"InputChange", "Submit", "ClearSearch", "SortChange", "ToggleGenre",
   "ClearAllGenres", "PrevPage", "NextPage", "GoToPage", "ClearAllFilters"}

UserStep == lastEvent'.name \in UserEvents

\* C18: unless the user keeps acting for ever, the committed search term
\* eventually equals the input text and stays equal to it.
C18_TermsConverge ==
  []<><<UserStep>>_vars \/ <>[](searchTerm = localSearchTerm)

\* typed text was committed by the timer
C18_Witness ==
  /\ typingOnly
  /\ lastEvent.name = "TimerFire"
  /\ localSearchTerm = <<"a", "b">>
  /\ searchTerm = localSearchTerm

\* C19: unless the user keeps acting for ever, the system comes to rest: from
\* some state on no debounce timer is pending and no effect is scheduled.
C19_Quiescence ==
  []<><<UserStep>>_vars \/ <>[](timers = {} /\ pendingEffects = {})

\* the timer fired a second time for the same text, nothing changed, and no
\* timer was armed again
C19_Witness ==
  /\ Mounted(loading, error)
  /\ lastEvent.name = "TimerFire"
  /\ onSearchCalls = 2
  /\ localSearchTerm # <<>>
  /\ timers = {}
  /\ pendingEffects = {}

====
